---- MODULE Spec2Model ----
(***************************************************************************)
(* The two combobox widgets of combo-eleven.tsx, ComboEleven and           *)
(* SuiCombobox, as one state machine.  A behaviour is the life of one      *)
(* widget instance after componentDidLoad: the widget kind, its filter     *)
(* prop and its first options prop are chosen in Init, and every step is   *)
(* one DOM callback run to completion (JavaScript is single threaded).     *)
(*                                                                         *)
(* Strings are sequences of one-character strings, so that toLowerCase and *)
(* substring containment are computed and not assumed.  Array indices are  *)
(* 0-based as in the source; At(arr, i) reads arr[i].  Reading a property  *)
(* of undefined throws a TypeError: the handler stops there, what it       *)
(* assigned before the throw stays assigned, and threw records it.         *)
(*                                                                         *)
(* shared/utils (filterOptions, getActionFromKey, getUpdatedIndex) is not  *)
(* among the sources; these three are modelled from the specification's    *)
(* sections 4.1, 4.2 and 4.3.                                              *)
(***************************************************************************)
EXTENDS Integers, Sequences, FiniteSets, TLC

\* ------------------------------------------------------------------ bounds
\* longest text the user leaves in the input by one input event
MaxLen == 1
\* number of distinct options the host page owns
MaxOptions == 3

\* ----------------------------------------------------------------- strings
Chars == {"a", "A", "b"}

\* String.prototype.toLowerCase on one character
LowerChar(c) == IF c = "A" THEN "a" ELSE c

toLowerCase(s) == [i \in 1..Len(s) |-> LowerChar(s[i])]

\* haystack contains needle as a contiguous substring ("" is in every string)
Contains(hay, needle) ==
  \E i \in 0..(Len(hay) - Len(needle)) :
    SubSeq(hay, i + 1, i + Len(needle)) = needle

RECURSIVE StringsOfLen(_)
StringsOfLen(n) ==
  IF n = 0 THEN {<<>>}
  ELSE {Append(s, c) : s \in StringsOfLen(n - 1), c \in Chars}

\* what inputRef.value can be when an input event fires
Texts == UNION {StringsOfLen(n) : n \in 0..MaxLen}

\* ----------------------------------------------------------------- options
\* SelectOption {name, value}; the k-th option of the host page.  Names
\* differ in case and one name is a substring of another.
NameOf(k) ==
  CASE k % 4 = 1 -> <<"a">>
    [] k % 4 = 2 -> <<"A", "b">>
    [] k % 4 = 3 -> <<"b">>
    [] OTHER     -> <<"A">>

SelectOption(k) == [name |-> NameOf(k), value |-> k]

AllOptions == [k \in 1..MaxOptions |-> SelectOption(k)]

\* the arrays the host page passes as the options prop: the leading and the
\* trailing parts of its option list, the empty array included
OptionLists ==
  {SubSeq(AllOptions, 1, k) : k \in 0..MaxOptions}
    \cup {SubSeq(AllOptions, k, MaxOptions) : k \in 1..MaxOptions}

\* arr[i] is defined (0-based)
HasIndex(arr, i) == i >= 0 /\ i < Len(arr)

\* arr[i] (0-based), for a defined index
At(arr, i) == arr[i + 1]

\* Array.prototype.indexOf: first 0-based position of x, -1 when absent
indexOf(arr, x) ==
  IF \E i \in 1..Len(arr) : arr[i] = x
  THEN (CHOOSE i \in 1..Len(arr) : arr[i] = x /\ \A j \in 1..(i - 1) : arr[j] # x) - 1
  ELSE -1

\* ------------------------------------------------------------ shared/utils
MenuActions ==
  {"First", "Last", "Next", "Previous", "Open", "Close", "CloseSelect", "None"}

\* the keys the model presses; Tab stands for every key without a meaning
Keys == {"ArrowDown", "ArrowUp", "Home", "End", "Enter", "Escape", "Tab"}

\* Option Filter: the options whose name contains the query, compared case
\* insensitively, in their original order
filterOptions(options, query) ==
  SelectSeq(options, LAMBDA o : Contains(toLowerCase(o.name), toLowerCase(query)))

\* Action Classifier
getActionFromKey(key, menuOpen) ==
  CASE key = "ArrowDown" -> IF menuOpen THEN "Next" ELSE "Open"
    [] key = "ArrowUp"   -> IF menuOpen THEN "Previous" ELSE "Open"
    [] key = "Home"      -> "First"
    [] key = "End"       -> "Last"
    [] key = "Enter"     -> IF menuOpen THEN "CloseSelect" ELSE "None"
    [] key = "Escape"    -> IF menuOpen THEN "Close" ELSE "None"
    [] OTHER             -> "None"

Min(a, b) == IF a < b THEN a ELSE b
Max(a, b) == IF a > b THEN a ELSE b

\* Navigation Index Calculator: 0 by convention on an empty list; Next and
\* Previous clamp and do not wrap
getUpdatedIndex(current, max, action) ==
  IF max < 0 THEN 0
  ELSE CASE action = "First"    -> 0
         [] action = "Last"     -> max
         [] action = "Next"     -> Min(current + 1, max)
         [] action = "Previous" -> Max(current - 1, 0)
         [] OTHER               -> current

\* ------------------------------------------------------------------- state
VARIABLES
  widget,           \* "ComboEleven" or "SuiCombobox"
  filter,           \* SuiCombobox @Prop filter
  options,          \* @Prop options
  activeIndex,      \* @State activeIndex
  filteredOptions,  \* @State filteredOptions
  open,             \* @State open
  selectedIndex,    \* ComboEleven @State selectedIndex
  value,            \* @State value
  ignoreBlur,       \* private ignoreBlur
  selectedValue,    \* SuiCombobox private selectedValue
  emitted,          \* payloads selectEvent.emit got during the last callback
  threw,            \* the last callback ended in a TypeError
  lastEvent,        \* the last callback: kind, key, option index, and the
                    \* open flag and active index it started from
  committed         \* the payload of the last select event, <<>> before the first

vars ==
  <<widget, filter, options, activeIndex, filteredOptions, open, selectedIndex,
    value, ignoreBlur, selectedValue, emitted, threw, lastEvent, committed>>

\* selectedIndex is a number, undefined (never assigned) or null
Undefined == [kind |-> "undefined", n |-> 0]
Null == [kind |-> "null", n |-> 0]
Num(i) == [kind |-> "number", n |-> i]

\* the instance's fields at the start of a callback
This ==
  [options |-> options, filter |-> filter, activeIndex |-> activeIndex,
   filteredOptions |-> filteredOptions, open |-> open,
   selectedIndex |-> selectedIndex, value |-> value, ignoreBlur |-> ignoreBlur,
   selectedValue |-> selectedValue, emitted |-> <<>>, threw |-> FALSE]

\* the instance's fields when the callback has returned or thrown
Becomes(t) ==
  /\ options' = t.options
  /\ filter' = t.filter
  /\ activeIndex' = t.activeIndex
  /\ filteredOptions' = t.filteredOptions
  /\ open' = t.open
  /\ selectedIndex' = t.selectedIndex
  /\ value' = t.value
  /\ ignoreBlur' = t.ignoreBlur
  /\ selectedValue' = t.selectedValue
  /\ emitted' = t.emitted
  /\ threw' = t.threw
  /\ widget' = widget
  /\ committed' = IF t.emitted # <<>> THEN <<t.emitted[Len(t.emitted)]>>
                  ELSE committed

Event(kind, key, index) ==
  [kind |-> kind, key |-> key, index |-> index, wasOpen |-> open,
   wasActive |-> activeIndex]

\* ------------------------------------------------------------- ComboEleven
\* variant: the flag is stored negated
ComboEleven_updateMenuState_Negated(t, isOpen) ==
  IF t.threw THEN t ELSE [t EXCEPT !.open = ~isOpen]

ComboEleven_updateMenuState(t, isOpen) ==
  IF t.threw THEN t ELSE [t EXCEPT !.open = isOpen]

ComboEleven_onOptionChange(t, index) ==
  IF t.threw THEN t ELSE [t EXCEPT !.activeIndex = index]

\* variant: the payload is read from the list after it was filtered again
ComboEleven_selectOption_EmitsAfterRefilter(t, index) ==
  IF t.threw THEN t
  ELSE IF ~HasIndex(t.filteredOptions, index) THEN [t EXCEPT !.threw = TRUE]
  ELSE LET selected == At(t.filteredOptions, index)
           refiltered == filterOptions(t.options, selected.name)
       IN [t EXCEPT !.value = selected.name,
                    !.filteredOptions = refiltered,
                    !.activeIndex = 0,
                    !.selectedIndex = Num(0),
                    !.emitted = Append(@, refiltered[1])]

ComboEleven_selectOption(t, index) ==
  IF t.threw THEN t
  ELSE IF ~HasIndex(t.filteredOptions, index) THEN [t EXCEPT !.threw = TRUE]
  ELSE LET selected == At(t.filteredOptions, index) IN
    [t EXCEPT !.value = selected.name,
              !.filteredOptions = filterOptions(t.options, selected.name),
              !.activeIndex = 0,
              !.selectedIndex = Num(0),
              !.emitted = Append(@, selected)]

\* variant: the new options are stored without filtering them
ComboEleven_watchOptions_Unfiltered(t, newValue) ==
  [t EXCEPT !.options = newValue, !.filteredOptions = newValue]

ComboEleven_watchOptions(t, newValue) ==
  [t EXCEPT !.options = newValue,
            !.filteredOptions = filterOptions(newValue, t.value)]

ComboEleven_componentDidLoad(opts) ==
  [options |-> opts, filter |-> FALSE, activeIndex |-> 0,
   filteredOptions |-> filterOptions(opts, <<>>), open |-> FALSE,
   selectedIndex |-> Undefined, value |-> <<>>, ignoreBlur |-> FALSE,
   selectedValue |-> <<>>, emitted |-> <<>>, threw |-> FALSE]

\* variant: the menu state follows the unfiltered options
ComboEleven_onInput_UnfilteredMenuState(t, curValue) ==
  LET t1 == [t EXCEPT !.filteredOptions = filterOptions(t.options, curValue)]
      t2 == IF t1.value # curValue
            THEN [t1 EXCEPT !.value = curValue, !.activeIndex = 0,
                            !.selectedIndex = Null]
            ELSE t1
      menuState == Len(t2.options) > 0
  IN IF t2.open # menuState THEN ComboEleven_updateMenuState(t2, menuState) ELSE t2

\* variant: the options are filtered by the value the widget held before
ComboEleven_onInput_FiltersByOldValue(t, curValue) ==
  LET t1 == [t EXCEPT !.filteredOptions = filterOptions(t.options, t.value)]
      t2 == IF t1.value # curValue
            THEN [t1 EXCEPT !.value = curValue, !.activeIndex = 0,
                            !.selectedIndex = Null]
            ELSE t1
      menuState == Len(t2.filteredOptions) > 0
  IN IF t2.open # menuState THEN ComboEleven_updateMenuState(t2, menuState) ELSE t2

ComboEleven_onInput(t, curValue) ==
  LET t1 == [t EXCEPT !.filteredOptions = filterOptions(t.options, curValue)]
      t2 == IF t1.value # curValue
            THEN [t1 EXCEPT !.value = curValue, !.activeIndex = 0,
                            !.selectedIndex = Null]
            ELSE t1
      menuState == Len(t2.filteredOptions) > 0
  IN IF t2.open # menuState THEN ComboEleven_updateMenuState(t2, menuState) ELSE t2

\* variant: max is the length of the list, not its last index
ComboEleven_onInputKeyDown_MaxIsLength(t, key) ==
  LET max == Len(t.filteredOptions)
      action == getActionFromKey(key, t.open)
  IN CASE action \in {"Next", "Last", "First", "Previous"} ->
            ComboEleven_onOptionChange(t, getUpdatedIndex(t.activeIndex, max, action))
       [] action = "CloseSelect" ->
            ComboEleven_updateMenuState(ComboEleven_selectOption(t, t.activeIndex), FALSE)
       [] action = "Close" -> ComboEleven_updateMenuState(t, FALSE)
       [] action = "Open" -> ComboEleven_updateMenuState(t, TRUE)
       [] OTHER -> t

ComboEleven_onInputKeyDown(t, key) ==
  LET max == Len(t.filteredOptions) - 1
      action == getActionFromKey(key, t.open)
  IN CASE action \in {"Next", "Last", "First", "Previous"} ->
            ComboEleven_onOptionChange(t, getUpdatedIndex(t.activeIndex, max, action))
       [] action = "CloseSelect" ->
            ComboEleven_updateMenuState(ComboEleven_selectOption(t, t.activeIndex), FALSE)
       [] action = "Close" -> ComboEleven_updateMenuState(t, FALSE)
       [] action = "Open" -> ComboEleven_updateMenuState(t, TRUE)
       [] OTHER -> t

\* variant: a blur that is not ignored forgets to close the menu
ComboEleven_onInputBlur_NoClose(t) ==
  IF t.ignoreBlur THEN [t EXCEPT !.ignoreBlur = FALSE] ELSE t

\* variant: a blur that is not ignored commits the active option first
ComboEleven_onInputBlur_Commits(t) ==
  IF t.ignoreBlur THEN [t EXCEPT !.ignoreBlur = FALSE]
  ELSE IF t.open
  THEN ComboEleven_updateMenuState(ComboEleven_selectOption(t, t.activeIndex), FALSE)
  ELSE t

ComboEleven_onInputBlur(t) ==
  IF t.ignoreBlur THEN [t EXCEPT !.ignoreBlur = FALSE]
  ELSE ComboEleven_updateMenuState(t, FALSE)

ComboEleven_onOptionClick(t, index) ==
  ComboEleven_updateMenuState(
    ComboEleven_selectOption(ComboEleven_onOptionChange(t, index), index), FALSE)

ComboEleven_onOptionMouseDown(t) == [t EXCEPT !.ignoreBlur = TRUE]

\* ------------------------------------------------------------- SuiCombobox
SuiCombobox_updateMenuState(t, isOpen) ==
  IF t.threw THEN t ELSE [t EXCEPT !.open = isOpen]

\* variant: moving the active option also copies its name into the input
SuiCombobox_onOptionChange_SetsValue(t, index) ==
  IF t.threw THEN t
  ELSE [t EXCEPT !.activeIndex = index,
                 !.value = IF HasIndex(t.filteredOptions, index)
                           THEN At(t.filteredOptions, index).name ELSE @]

SuiCombobox_onOptionChange(t, index) ==
  IF t.threw THEN t ELSE [t EXCEPT !.activeIndex = index]

\* variant: the selected name is not remembered
SuiCombobox_selectOption_ForgetsSelectedValue(t, index) ==
  IF t.threw THEN t
  ELSE IF ~HasIndex(t.filteredOptions, index) THEN [t EXCEPT !.threw = TRUE]
  ELSE LET selected == At(t.filteredOptions, index) IN
    [t EXCEPT !.value = selected.name,
              !.activeIndex = 0,
              !.filteredOptions =
                 IF t.filter THEN filterOptions(t.options, selected.name) ELSE @,
              !.emitted = Append(@, selected)]

SuiCombobox_selectOption(t, index) ==
  IF t.threw THEN t
  ELSE IF ~HasIndex(t.filteredOptions, index) THEN [t EXCEPT !.threw = TRUE]
  ELSE LET selected == At(t.filteredOptions, index) IN
    [t EXCEPT !.value = selected.name,
              !.selectedValue = selected.name,
              !.activeIndex = 0,
              !.filteredOptions =
                 IF t.filter THEN filterOptions(t.options, selected.name) ELSE @,
              !.emitted = Append(@, selected)]

SuiCombobox_watchOptions(t, newValue) ==
  [t EXCEPT !.options = newValue,
            !.filteredOptions =
               IF t.filter THEN filterOptions(newValue, t.value) ELSE @]

\* this.value is undefined when the component loads: the destructured value
\* defaults to '' and the field becomes the first option's name
SuiCombobox_componentDidLoad(opts, flt) ==
  LET filtered == IF flt THEN filterOptions(opts, <<>>) ELSE opts IN
  [options |-> opts, filter |-> flt, activeIndex |-> 0,
   filteredOptions |-> filtered, open |-> FALSE,
   selectedIndex |-> Undefined,
   value |-> IF Len(filtered) > 0 THEN filtered[1].name ELSE <<>>,
   ignoreBlur |-> FALSE, selectedValue |-> <<>>, emitted |-> <<>>,
   threw |-> FALSE]

SuiCombobox_onInput(t, curValue) ==
  LET matches == filterOptions(t.options, curValue)
      t1 == IF t.filter
            THEN [t EXCEPT !.filteredOptions = matches, !.activeIndex = 0]
            ELSE IF ~HasIndex(t.options, t.activeIndex)
            THEN [t EXCEPT !.threw = TRUE]
            ELSE LET current == At(t.options, t.activeIndex).name
                     filterCurrentOption ==
                       SelectSeq(matches, LAMBDA o : o.name = current)
                 IN IF Len(matches) > 0 /\ Len(filterCurrentOption) = 0
                    THEN [t EXCEPT !.activeIndex = indexOf(t.options, matches[1])]
                    ELSE t
      t2 == IF ~t1.threw /\ t1.value # curValue
            THEN [t1 EXCEPT !.value = curValue] ELSE t1
      menuState == Len(t2.filteredOptions) > 0
  IN IF t2.open # menuState THEN SuiCombobox_updateMenuState(t2, menuState) ELSE t2

\* variant: Last stores max itself instead of asking getUpdatedIndex
SuiCombobox_onInputKeyDown_LastStoresMax(t, key) ==
  LET max == Len(t.filteredOptions) - 1
      action == getActionFromKey(key, t.open)
  IN CASE action = "Last" -> SuiCombobox_onOptionChange(t, max)
       [] action \in {"Next", "First", "Previous"} ->
            SuiCombobox_onOptionChange(t, getUpdatedIndex(t.activeIndex, max, action))
       [] action = "CloseSelect" ->
            SuiCombobox_updateMenuState(SuiCombobox_selectOption(t, t.activeIndex), FALSE)
       [] action = "Close" ->
            SuiCombobox_updateMenuState(
              [t EXCEPT !.activeIndex = 0, !.value = t.selectedValue,
                        !.filteredOptions = t.options], FALSE)
       [] action = "Open" -> SuiCombobox_updateMenuState(t, TRUE)
       [] OTHER -> t

\* variant: the key is classified as if the menu were always open
SuiCombobox_onInputKeyDown_IgnoresOpen(t, key) ==
  LET max == Len(t.filteredOptions) - 1
      action == getActionFromKey(key, TRUE)
  IN CASE action \in {"Next", "Last", "First", "Previous"} ->
            SuiCombobox_onOptionChange(t, getUpdatedIndex(t.activeIndex, max, action))
       [] action = "CloseSelect" ->
            SuiCombobox_updateMenuState(SuiCombobox_selectOption(t, t.activeIndex), FALSE)
       [] action = "Close" ->
            SuiCombobox_updateMenuState(
              [t EXCEPT !.activeIndex = 0, !.value = t.selectedValue,
                        !.filteredOptions = t.options], FALSE)
       [] action = "Open" -> SuiCombobox_updateMenuState(t, TRUE)
       [] OTHER -> t

\* the handler passes the event; the action is read from the event's key
SuiCombobox_onInputKeyDown(t, key) ==
  LET max == Len(t.filteredOptions) - 1
      action == getActionFromKey(key, t.open)
  IN CASE action \in {"Next", "Last", "First", "Previous"} ->
            SuiCombobox_onOptionChange(t, getUpdatedIndex(t.activeIndex, max, action))
       [] action = "CloseSelect" ->
            SuiCombobox_updateMenuState(SuiCombobox_selectOption(t, t.activeIndex), FALSE)
       [] action = "Close" ->
            SuiCombobox_updateMenuState(
              [t EXCEPT !.activeIndex = 0, !.value = t.selectedValue,
                        !.filteredOptions = t.options], FALSE)
       [] action = "Open" -> SuiCombobox_updateMenuState(t, TRUE)
       [] OTHER -> t

SuiCombobox_onInputBlur(t) ==
  IF t.ignoreBlur THEN [t EXCEPT !.ignoreBlur = FALSE]
  ELSE IF t.open
  THEN SuiCombobox_updateMenuState(SuiCombobox_selectOption(t, t.activeIndex), FALSE)
  ELSE t

SuiCombobox_onOptionClick(t, index) ==
  SuiCombobox_updateMenuState(
    SuiCombobox_selectOption(SuiCombobox_onOptionChange(t, index), index), FALSE)

SuiCombobox_onOptionMouseDown(t) == [t EXCEPT !.ignoreBlur = TRUE]

\* ------------------------------------------------------------ the widget
IsCE == widget = "ComboEleven"

\* the state after construction and componentDidLoad
Init ==
  /\ widget \in {"ComboEleven", "SuiCombobox"}
  /\ filter \in (IF widget = "ComboEleven" THEN {FALSE} ELSE BOOLEAN)
  /\ \E opts \in OptionLists :
       LET t == IF widget = "ComboEleven" THEN ComboEleven_componentDidLoad(opts)
                ELSE SuiCombobox_componentDidLoad(opts, filter)
       IN /\ options = t.options
          /\ activeIndex = t.activeIndex
          /\ filteredOptions = t.filteredOptions
          /\ open = t.open
          /\ selectedIndex = t.selectedIndex
          /\ value = t.value
          /\ ignoreBlur = t.ignoreBlur
          /\ selectedValue = t.selectedValue
          /\ emitted = t.emitted
          /\ threw = t.threw
  /\ lastEvent = [kind |-> "load", key |-> "", index |-> 0, wasOpen |-> FALSE,
                  wasActive |-> 0]
  /\ committed = <<>>

\* input event on the text field
onInput ==
  \E curValue \in Texts :
    /\ Becomes(IF IsCE THEN ComboEleven_onInput(This, curValue)
               ELSE SuiCombobox_onInput(This, curValue))
    /\ lastEvent' = Event("input", "", 0)

\* keydown event on the text field
onInputKeyDown ==
  \E key \in Keys :
    /\ Becomes(IF IsCE THEN ComboEleven_onInputKeyDown(This, key)
               ELSE SuiCombobox_onInputKeyDown(This, key))
    /\ lastEvent' = Event("keydown", key, 0)

\* blur event on the text field
onInputBlur ==
  /\ Becomes(IF IsCE THEN ComboEleven_onInputBlur(This)
             ELSE SuiCombobox_onInputBlur(This))
  /\ lastEvent' = Event("blur", "", 0)

\* click on the text field: onClick={() => this.updateMenuState(true)}
onInputClick ==
  /\ Becomes(IF IsCE THEN ComboEleven_updateMenuState(This, TRUE)
             ELSE SuiCombobox_updateMenuState(This, TRUE))
  /\ lastEvent' = Event("inputclick", "", 0)

\* mousedown on a rendered option
onOptionMouseDown ==
  /\ Len(filteredOptions) > 0
  /\ Becomes(IF IsCE THEN ComboEleven_onOptionMouseDown(This)
             ELSE SuiCombobox_onOptionMouseDown(This))
  /\ lastEvent' = Event("mousedown", "", 0)

\* click on the i-th rendered option: render maps filteredOptions
onOptionClick ==
  \E i \in 0..(Len(filteredOptions) - 1) :
    /\ Becomes(IF IsCE THEN ComboEleven_onOptionClick(This, i)
               ELSE SuiCombobox_onOptionClick(This, i))
    /\ lastEvent' = Event("click", "", i)

\* the host page assigns another array to the options prop
watchOptions ==
  \E newValue \in OptionLists \ {options} :
    /\ Becomes(IF IsCE THEN ComboEleven_watchOptions(This, newValue)
               ELSE SuiCombobox_watchOptions(This, newValue))
    /\ lastEvent' = Event("options", "", 0)

Next ==
  \/ onInput
  \/ onInputKeyDown
  \/ onInputBlur
  \/ onInputClick
  \/ onOptionMouseDown
  \/ onOptionClick
  \/ watchOptions

Spec == Init /\ [][Next]_vars

TypeOK ==
  /\ widget \in {"ComboEleven", "SuiCombobox"}
  /\ filter \in BOOLEAN
  /\ options \in OptionLists
  /\ open \in BOOLEAN
  /\ ignoreBlur \in BOOLEAN
  /\ threw \in BOOLEAN
  /\ Len(emitted) <= 1

\* ------------------------------------------------------------------ claims
NavActions == {"First", "Last", "Next", "Previous"}

\* the action the last keydown was classified as
LastAction == getActionFromKey(lastEvent.key, lastEvent.wasOpen)

\* in a step: the action the keydown being handled is classified as
StepAction == getActionFromKey(lastEvent'.key, open)

\* in a step: the index a CloseSelect keystroke or an option click chooses
Chosen == IF lastEvent'.kind = "click" THEN lastEvent'.index ELSE activeIndex

\* in a step: the keydown being handled is a CloseSelect
StepCloseSelect == lastEvent'.kind = "keydown" /\ StepAction = "CloseSelect"

\* C1: whenever filteredOptions is non-empty, activeIndex is one of its
\* indices, in both widgets and after every event.
C1_ActiveIndexValid ==
  Len(filteredOptions) > 0 =>
    (activeIndex >= 0 /\ activeIndex <= Len(filteredOptions) - 1)

\* C2: no CloseSelect keystroke, option click or blur reads
\* filteredOptions[activeIndex] while filteredOptions is empty, and a
\* selection is committed only with an index the filtered list has.
C2_NoCommitOnEmptyList ==
  [][(StepCloseSelect \/ lastEvent'.kind \in {"click", "blur"}) =>
       /\ ~(threw' /\ Len(filteredOptions) = 0)
       /\ emitted' # <<>> =>
            (HasIndex(filteredOptions, Chosen)
               /\ emitted' = <<At(filteredOptions, Chosen)>>)]_vars

\* C3 as stated: an Open menu becomes Closed only by a Close action, a
\* CloseSelect action or a blur.
C3_ClosedOnlyByCloseSelectBlur ==
  (lastEvent.wasOpen /\ ~open) =>
    \/ lastEvent.kind = "blur"
    \/ (lastEvent.kind = "keydown" /\ LastAction \in {"Close", "CloseSelect"})

\* C3 amended: an Open menu becomes Closed only by a Close action, a
\* CloseSelect action, a blur, a click on an option, or a text input that
\* leaves filteredOptions empty.
C3_ClosedOnlyByListedEvents ==
  (lastEvent.wasOpen /\ ~open) =>
    \/ lastEvent.kind \in {"blur", "click"}
    \/ (lastEvent.kind = "keydown" /\ LastAction \in {"Close", "CloseSelect"})
    \/ (lastEvent.kind = "input" /\ Len(filteredOptions) = 0)

C3_Witness ==
  /\ lastEvent.kind = "input"
  /\ lastEvent.wasOpen
  /\ ~open
  /\ Len(filteredOptions) = 0
  /\ Len(options) > 0

\* C4 as stated: a Closed menu becomes Open only by an Open action or by a
\* text input for which filterOptions(options, typed text) is non-empty.
C4_OpenedOnlyByOpenOrMatchingInput ==
  (~lastEvent.wasOpen /\ open) =>
    \/ (lastEvent.kind = "keydown" /\ LastAction = "Open")
    \/ (lastEvent.kind = "input" /\ Len(filterOptions(options, value)) > 0)

\* C4 amended: a Closed menu becomes Open only by an Open action, by a click
\* on the input, or by a text input that leaves filteredOptions non-empty;
\* in ComboEleven and in SuiCombobox with filter = true that list is
\* filterOptions(options, typed text), in SuiCombobox with filter = false it
\* is the list the widget holds, whatever the text matches.
C4_OpenedOnlyByListedEvents ==
  (~lastEvent.wasOpen /\ open) =>
    \/ (lastEvent.kind = "keydown" /\ LastAction = "Open")
    \/ lastEvent.kind = "inputclick"
    \/ /\ lastEvent.kind = "input"
       /\ Len(filteredOptions) > 0
       /\ (IsCE \/ filter) => filteredOptions = filterOptions(options, value)

C4_Witness ==
  /\ lastEvent.kind = "input"
  /\ ~lastEvent.wasOpen
  /\ open
  /\ ~IsCE
  /\ ~filter
  /\ Len(filterOptions(options, value)) = 0

C6_NavigationChangesOnlyActiveIndex ==
  [][(lastEvent'.kind = "keydown" /\ open /\ StepAction \in NavActions) =>
       /\ open'
       /\ ~threw'
       /\ emitted' = <<>>
       /\ UNCHANGED <<value, filteredOptions, selectedIndex, selectedValue,
                      ignoreBlur, options>>]_vars

C6_Witness ==
  /\ lastEvent.kind = "keydown"
  /\ lastEvent.key = "ArrowDown"
  /\ lastEvent.wasOpen
  /\ open
  /\ activeIndex = lastEvent.wasActive + 1
  /\ value # <<>>

\* C7: a First, Last, Next, Previous, Close or CloseSelect keystroke on a
\* Closed menu, and an Open action on an Open menu, change none of open,
\* activeIndex, value, filteredOptions, selectedIndex and selectedValue.
C7_InvalidActionIsNoOp ==
  [][/\ (lastEvent'.kind = "keydown" /\ ~open
           /\ StepAction \in NavActions \cup {"Close", "CloseSelect"}) =>
          UNCHANGED <<open, activeIndex, value, filteredOptions, selectedIndex,
                      selectedValue>>
     /\ (open /\ (lastEvent'.kind = "inputclick"
                    \/ (lastEvent'.kind = "keydown" /\ StepAction = "Open"))) =>
          UNCHANGED <<open, activeIndex, value, filteredOptions, selectedIndex,
                      selectedValue>>]_vars

\* C8: a CloseSelect keystroke and a click on an option, when the chosen
\* index is in the filtered list, emit exactly one select event carrying the
\* option that was at that index before the event, set value to its name
\* and leave the menu Closed.
C8_SelectEmitsChosenOption ==
  [][((StepCloseSelect \/ lastEvent'.kind = "click")
        /\ HasIndex(filteredOptions, Chosen)) =>
       /\ emitted' = <<At(filteredOptions, Chosen)>>
       /\ value' = At(filteredOptions, Chosen).name
       /\ ~open'
       /\ ~threw']_vars

C8_Witness ==
  /\ lastEvent.kind = "keydown"
  /\ lastEvent.key = "Enter"
  /\ lastEvent.wasOpen
  /\ lastEvent.wasActive > 0
  /\ Len(emitted) = 1
  /\ value = emitted[1].name
  /\ ~open

\* C9 as stated: in ComboEleven and in SuiCombobox with filter = true,
\* filteredOptions is filterOptions(options, value) in every state.
C9_FilteredReflectsValue ==
  (IsCE \/ filter) => filteredOptions = filterOptions(options, value)

\* C9 amended: in ComboEleven filteredOptions is filterOptions(options,
\* value) in every state; in SuiCombobox with filter = true it is either
\* that or the whole options list, which componentDidLoad and the Close
\* action store next to a value that need not match every option.
C9_FilteredReflectsValueOrIsReset ==
  /\ IsCE => filteredOptions = filterOptions(options, value)
  /\ (~IsCE /\ filter) =>
       \/ filteredOptions = filterOptions(options, value)
       \/ filteredOptions = options

C9_Witness ==
  /\ ~IsCE
  /\ filter
  /\ lastEvent.kind = "keydown"
  /\ LastAction = "Close"
  /\ filteredOptions = options
  /\ filteredOptions # filterOptions(options, value)

\* the index section 4.3 of the specification asks for, written without
\* Min and Max
ExpectedIndex(current, max, action) ==
  CASE action = "First"    -> 0
    [] action = "Last"     -> max
    [] action = "Next"     -> IF current = max THEN max ELSE current + 1
    [] action = "Previous" -> IF current = 0 THEN 0 ELSE current - 1
    [] OTHER               -> current

widgetState ==
  <<options, filter, activeIndex, filteredOptions, open, selectedIndex, value,
    ignoreBlur, selectedValue>>

SameIgnoringCase(x, y) ==
  /\ Len(x) = Len(y)
  /\ \A k \in 1..Len(x) : x[k] = y[k] \/ {x[k], y[k]} = {"a", "A"}

\* some stretch of name is q up to case
MatchesIgnoringCase(name, q) ==
  \E i \in 0..Len(name) : \E j \in i..Len(name) :
    SameIgnoringCase(SubSeq(name, i + 1, j), q)

\* result lists, in their order in opts, exactly the options of opts whose
\* name matches q
IsFilterOf(result, opts, q) ==
  LET pos == {i \in 1..Len(opts) : MatchesIgnoringCase(opts[i].name, q)} IN
  /\ Len(result) = Cardinality(pos)
  /\ \A k \in 1..Len(result) :
       \E i \in pos : /\ Cardinality({j \in pos : j < i}) = k - 1
                      /\ result[k] = opts[i]

TableAction(key, isOpen) ==
  IF isOpen
  THEN CASE key = "ArrowDown" -> "Next"
         [] key = "ArrowUp"   -> "Previous"
         [] key = "Home"      -> "First"
         [] key = "End"       -> "Last"
         [] key = "Enter"     -> "CloseSelect"
         [] key = "Escape"    -> "Close"
         [] OTHER             -> "None"
  ELSE CASE key \in {"ArrowDown", "ArrowUp"} -> "Open"
         [] key = "Home"      -> "First"
         [] key = "End"       -> "Last"
         [] OTHER             -> "None"

\* in a step: the keydown handler does what action a asks for
HandlerDoes(a) ==
  CASE a = "None" -> UNCHANGED widgetState /\ emitted' = <<>> /\ ~threw'
    [] a = "Open" -> open' /\ UNCHANGED <<activeIndex, value, filteredOptions>>
    [] a \in NavActions ->
         /\ activeIndex' = getUpdatedIndex(activeIndex, Len(filteredOptions) - 1, a)
         /\ open' = open
         /\ emitted' = <<>>
    [] a = "Close" -> ~open' /\ emitted' = <<>> /\ ~threw'
    [] a = "CloseSelect" -> threw' \/ (Len(emitted') = 1 /\ ~open')

CommittedName == IF committed = <<>> THEN <<>> ELSE committed[1].name

\* C14: in SuiCombobox, after a Close action the menu is Closed,
\* activeIndex is 0, filteredOptions is the options list, value is the name
\* of the last payload a select event carried ("" if there was none), and
\* the Close emitted nothing.
C14_CloseRevertsToCommitted ==
  (~IsCE /\ lastEvent.kind = "keydown" /\ LastAction = "Close") =>
    /\ ~open
    /\ activeIndex = 0
    /\ filteredOptions = options
    /\ value = CommittedName
    /\ emitted = <<>>
    /\ ~threw

C14_Witness ==
  /\ ~IsCE
  /\ lastEvent.kind = "keydown"
  /\ LastAction = "Close"
  /\ lastEvent.wasActive > 0
  /\ committed # <<>>
  /\ value = committed[1].name
  /\ Len(filteredOptions) > 1

\* C15: in ComboEleven, whenever selectedIndex is a number it is an index
\* of filteredOptions and the option there is the last committed one, whose
\* name is the input value.
C15_SelectedIndexIsCommittedOption ==
  (IsCE /\ selectedIndex.kind = "number") =>
    /\ HasIndex(filteredOptions, selectedIndex.n)
    /\ committed = <<At(filteredOptions, selectedIndex.n)>>
    /\ At(filteredOptions, selectedIndex.n).name = value

\* C16: once an option click has completed ignoreBlur is false (so that no
\* later blur is swallowed without a new option mousedown).
C16_ClickLeavesIgnoreBlurFalse ==
  lastEvent.kind = "click" => ~ignoreBlur

\* C17: in SuiCombobox with filter = false filteredOptions is the current
\* options list in every state.
C17_UnfilteredListIsOptions ==
  (~IsCE /\ ~filter) => filteredOptions = options

C19_BlurCommitsWhenOpen ==
  [][(~IsCE /\ lastEvent'.kind = "blur" /\ ~ignoreBlur) =>
       IF open
       THEN /\ HasIndex(filteredOptions, activeIndex)
            /\ emitted' = <<At(filteredOptions, activeIndex)>>
            /\ value' = At(filteredOptions, activeIndex).name
            /\ selectedValue' = At(filteredOptions, activeIndex).name
            /\ ~open'
       ELSE emitted' = <<>> /\ UNCHANGED widgetState]_vars

\* C20: in ComboEleven a Close action and a blur that ignoreBlur does not
\* suppress close the menu and change nothing else: value, filteredOptions,
\* activeIndex and selectedIndex stay and no select event is emitted.
C20_CloseChangesOnlyOpen ==
  [][(IsCE /\ (\/ (lastEvent'.kind = "keydown" /\ StepAction = "Close")
               \/ (lastEvent'.kind = "blur" /\ ~ignoreBlur))) =>
       /\ ~open'
       /\ emitted' = <<>>
       /\ ~threw'
       /\ UNCHANGED <<options, activeIndex, filteredOptions, selectedIndex,
                      value, ignoreBlur, selectedValue>>]_vars

C20_Witness ==
  /\ IsCE
  /\ lastEvent.kind = "keydown"
  /\ lastEvent.key = "Escape"
  /\ lastEvent.wasOpen
  /\ ~open
  /\ activeIndex > 0
  /\ value # <<>>
====
